---------------------------- MODULE Spec2Model ----------------------------
(***************************************************************************)
(* Model of the mushroom classifier: the request/response exchange         *)
(* (openai.AnalyzeImage over httpclient.PostJSON), the image loader        *)
(* (base64.ReadImageToBase64) and the two GUI controllers (Fyne: gui.go,   *)
(* GTK: the gotk3 build of package gui) that drive them.                   *)
(*                                                                         *)
(* A Go string is a sequence of tokens.  A token is either one character   *)
(* of data or a whole string literal of the source; no literal of the      *)
(* source can be spelled with the data characters, so two Go strings are   *)
(* equal exactly when their token sequences are.  A Go pointer or error    *)
(* is a sequence of length 0 (nil) or 1.                                   *)
(***************************************************************************)
EXTENDS Integers, Sequences, FiniteSets, Bags, TLC

(***************************************************************************)
(* Bounds of the model.                                                    *)
(***************************************************************************)
\* longest data text (an error message of the provider, a transport cause)
MaxText == 2
\* longest choices list of a response document
MaxChoices == 2
\* most worker goroutines alive at once
MaxWorkers == 2

(***************************************************************************)
(* Go values.                                                              *)
(***************************************************************************)
Nil == <<>>
Ptr(x) == <<x>>
Deref(p) == p[1]

EmptyString == <<>>
Lit(s) == <<s>>

\* the data characters texts are drawn from; "%" is fmt's verb marker
Alphabet == {"a", "%"}
TextsUpTo(n) == UNION {[1..k -> Alphabet] : k \in 0..n}
Texts == TextsUpTo(MaxText)

\* strings.Contains
Contains(s, sub) ==
    \E i \in 1..(Len(s) - Len(sub) + 1) : SubSeq(s, i, i + Len(sub) - 1) = sub

HasPrefix(s, p) == Len(s) >= Len(p) /\ SubSeq(s, 1, Len(p)) = p

(***************************************************************************)
(* fmt.Sprintf / fmt.Errorf applied to a format with NO operands, which is *)
(* what fmt.Errorf(resp.ErrorMessage) and fmt.Errorf(errorMsg) are: "%%"   *)
(* prints "%", "%" followed by a verb c prints "%!c(MISSING)", and a       *)
(* trailing "%" prints "%!(NOVERB)".  (No token of the model is one of     *)
(* fmt's flag, width or index characters.)                                 *)
(***************************************************************************)
RECURSIVE SprintfNoArgs(_)
SprintfNoArgs(format) ==
    IF format = <<>> THEN <<>>
    ELSE IF Head(format) # "%" THEN <<Head(format)>> \o SprintfNoArgs(Tail(format))
    ELSE IF Len(format) = 1 THEN <<"%", "!", "(NOVERB)">>
    ELSE IF format[2] = "%"
         THEN <<"%">> \o SprintfNoArgs(SubSeq(format, 3, Len(format)))
    ELSE <<"%", "!", format[2], "(MISSING)">>
             \o SprintfNoArgs(SubSeq(format, 3, Len(format)))

(***************************************************************************)
(* base64.EncodeData: standard base64 (RFC 4648), padded.  A byte is a     *)
(* number in 0..255.                                                       *)
(***************************************************************************)
B64Chars ==
    << "A","B","C","D","E","F","G","H","I","J","K","L","M","N","O","P",
       "Q","R","S","T","U","V","W","X","Y","Z","a","b","c","d","e","f",
       "g","h","i","j","k","l","m","n","o","p","q","r","s","t","u","v",
       "w","x","y","z","0","1","2","3","4","5","6","7","8","9","+","/" >>

Sextet(n) == B64Chars[n + 1]

RECURSIVE EncodeData(_)
EncodeData(data) ==
    IF Len(data) = 0 THEN <<>>
    ELSE IF Len(data) = 1 THEN
        << Sextet(data[1] \div 4), Sextet((data[1] % 4) * 16), "=", "=" >>
    ELSE IF Len(data) = 2 THEN
        << Sextet(data[1] \div 4),
           Sextet((data[1] % 4) * 16 + data[2] \div 16),
           Sextet((data[2] % 16) * 4), "=" >>
    ELSE
        << Sextet(data[1] \div 4),
           Sextet((data[1] % 4) * 16 + data[2] \div 16),
           Sextet((data[2] % 16) * 4 + data[3] \div 64),
           Sextet(data[3] % 64) >>
          \o EncodeData(SubSeq(data, 4, Len(data)))

(***************************************************************************)
(* Response bodies.  A body is the bytes the server sent; the model keeps  *)
(* the JSON structure the bytes spell (or the fact that they spell none)   *)
(* and derives both string(body) and json.Unmarshal(body) from it.         *)
(***************************************************************************)
JAbsent == [t |-> "absent"]
JNull == [t |-> "null"]
JNumber == [t |-> "number"]
JString(v) == [t |-> "string", v |-> v]

\* the contents a completion choice can carry
ChoiceContents == {EmptyString, <<"a">>, <<"%">>}

\* choices[i].message.content: a string, missing, or of the wrong JSON type
JContents == {JAbsent, JNumber} \cup {JString(c) : c \in ChoiceContents}
JChoice(content) == [t |-> "object", content |-> content]
JChoices == {JChoice(c) : c \in JContents}
JChoiceLists ==
    {JAbsent, JNull, JNumber}
        \cup {[t |-> "array", v |-> l] :
                 l \in UNION {[1..k -> JChoices] : k \in 0..MaxChoices}}

\* error.message likewise
JMessages == {JAbsent, JNumber} \cup {JString(m) : m \in Texts}
JErrors ==
    {JAbsent, JNull, JNumber}
        \cup {[t |-> "object", message |-> m] : m \in JMessages}

Bodies ==
    {[k |-> "garbage", text |-> g] : g \in Texts}
        \cup {[k |-> "null"], [k |-> "array"]}
        \cup {[k |-> "object", error |-> e, choices |-> c] :
                 e \in JErrors, c \in JChoiceLists}

\* the text of a JSON string member, or of whatever stands in its place
MemberText(name, j) ==
    CASE j.t = "absent" -> <<>>
      [] j.t = "null"   -> <<name, "null">>
      [] j.t = "number" -> <<name, "42">>
      [] j.t = "string" -> <<name, "\"">> \o j.v \o <<"\"">>

RECURSIVE ChoicesText(_)
ChoicesText(l) ==
    IF l = <<>> THEN <<>>
    ELSE <<"{\"message\":{">> \o MemberText("\"content\":", Head(l).content)
             \o <<"}}">> \o ChoicesText(Tail(l))

\* string(body)
BodyText(body) ==
    CASE body.k = "garbage" -> body.text
      [] body.k = "null"    -> <<"null">>
      [] body.k = "array"   -> <<"[]">>
      [] body.k = "object"  ->
            <<"{">>
            \o (IF body.error.t = "object"
                THEN <<"\"error\":{">>
                       \o MemberText("\"message\":", body.error.message) \o <<"}">>
                ELSE MemberText("\"error\":", body.error))
            \o (IF body.choices.t = "array"
                THEN <<"\"choices\":[">> \o ChoicesText(body.choices.v) \o <<"]">>
                ELSE MemberText("\"choices\":", body.choices))
            \o <<"}">>


(***************************************************************************)
(* json.Unmarshal(body, &chatResp) for chatCompletionResponse: a syntax    *)
(* error or a member of the wrong JSON type is an error; a missing or null *)
(* member leaves the Go zero value (nil pointer, nil slice, "").           *)
(***************************************************************************)
ZeroChatResp == [Choices |-> <<>>, Error |-> Nil]

SyntaxError(text) ==
    IF text = <<>> THEN Lit("unexpected end of JSON input")
    ELSE <<"invalid character ", "'", Head(text), "'",
           " looking for beginning of value">>

UnmarshalTypeError(jsonType, field) ==
    <<"json: cannot unmarshal ", jsonType, " into Go ", field>>

\* a string member: its value, or "" when missing or null
StringMember(j) == IF j.t = "string" THEN j.v ELSE EmptyString

DecodeChoice(c) == [Message |-> [Content |-> StringMember(c.content)]]

DecodeChoices(j) ==
    IF j.t = "array" THEN [i \in 1..Len(j.v) |-> DecodeChoice(j.v[i])] ELSE <<>>

DecodeError(j) ==
    IF j.t = "object" THEN Ptr([Message |-> StringMember(j.message)]) ELSE Nil

\* the earliest member of the wrong type, in document order, if any
ObjectTypeError(body) ==
    IF body.error.t = "number"
        THEN Ptr(UnmarshalTypeError("number", "struct field chatCompletionResponse.error"))
    ELSE IF body.error.t = "object" /\ body.error.message.t = "number"
        THEN Ptr(UnmarshalTypeError("number", "struct field .error.message of type string"))
    ELSE IF body.choices.t = "number"
        THEN Ptr(UnmarshalTypeError("number", "struct field chatCompletionResponse.choices"))
    ELSE IF body.choices.t = "array"
            /\ \E i \in 1..Len(body.choices.v) : body.choices.v[i].content.t = "number"
        THEN Ptr(UnmarshalTypeError("number",
                    "struct field .choices.message.content of type string"))
    ELSE Nil

Unmarshal(body) ==
    CASE body.k = "garbage" -> [err |-> Ptr(SyntaxError(body.text)), v |-> ZeroChatResp]
      [] body.k = "null"    -> [err |-> Nil, v |-> ZeroChatResp]
      [] body.k = "array"   ->
            [err |-> Ptr(UnmarshalTypeError("array",
                            "value of type openai.chatCompletionResponse")),
             v |-> ZeroChatResp]
      [] body.k = "object"  ->
            [err |-> ObjectTypeError(body),
             v |-> [Choices |-> DecodeChoices(body.choices),
                    Error |-> DecodeError(body.error)]]

(***************************************************************************)
(* httpclient.PostJSON.  net is what the network does with the one POST:   *)
(*   badurl  http.NewRequest rejects the URL, nothing is sent              *)
(*   neterr  client.Do fails (30 s timeout, connection refused, DNS)       *)
(*   readerr io.ReadAll fails                                              *)
(*   http    a response with a status code and a body arrives              *)
(* The result carries, beside Go's (response, error), the requests put on  *)
(* the wire (none or one).                                                 *)
(***************************************************************************)
Statuses == {200, 399, 400, 500}

NetCauses ==
    { Lit("context deadline exceeded (Client.Timeout exceeded while awaiting headers)"),
      Lit("dial tcp: connect: connection refused"),
      Lit("dial tcp: lookup: no such host") }

Nets ==
    {[k |-> "badurl"], [k |-> "readerr"]}
        \cup {[k |-> "neterr", cause |-> c] : c \in NetCauses}
        \cup {[k |-> "http", status |-> s, body |-> b] : s \in Statuses, b \in Bodies}

IsTimeout(net) ==
    net.k = "neterr"
    /\ net.cause = Lit("context deadline exceeded (Client.Timeout exceeded while awaiting headers)")

\* the request as sent: the headers PostJSON sets and the body
WireRequest(req) ==
    [URL |-> req.URL,
     ContentType |-> Lit("application/json"),
     Authorization |-> IF req.AuthToken # EmptyString
                       THEN Ptr(Lit("Bearer ") \o req.AuthToken) ELSE Nil,
     Body |-> req.JSONBody]

UrlError(op, url, cause) == <<op, " \"">> \o url \o <<"\": ">> \o cause

\* PostJSON returning no response along with the error of a status >= 400
PostJSONDropsErrorResponse(req, net) ==
    CASE net.k = "badurl" ->
            [resp |-> Nil,
             err |-> Ptr(Lit("failed to create request: ")
                           \o UrlError("parse", req.URL, Lit("invalid URL"))),
             wire |-> <<>>]
      [] net.k = "neterr" ->
            [resp |-> Nil,
             err |-> Ptr(Lit("failed to perform request: ")
                           \o UrlError("Post", req.URL, net.cause)),
             wire |-> <<WireRequest(req)>>]
      [] net.k = "readerr" ->
            [resp |-> Nil,
             err |-> Ptr(Lit("failed to read response body: ") \o Lit("unexpected EOF")),
             wire |-> <<WireRequest(req)>>]
      [] net.k = "http" ->
            [resp |-> IF net.status >= 400 THEN Nil
                      ELSE Ptr([Body |-> net.body, StatusCode |-> net.status]),
             err |-> IF net.status >= 400
                     THEN Ptr(<<"HTTP error ", ToString(net.status), ": ">>
                                \o BodyText(net.body))
                     ELSE Nil,
             wire |-> <<WireRequest(req)>>]

PostJSON(req, net) ==
    CASE net.k = "badurl" ->
            [resp |-> Nil,
             err |-> Ptr(Lit("failed to create request: ")
                           \o UrlError("parse", req.URL, Lit("invalid URL"))),
             wire |-> <<>>]
      [] net.k = "neterr" ->
            [resp |-> Nil,
             err |-> Ptr(Lit("failed to perform request: ")
                           \o UrlError("Post", req.URL, net.cause)),
             wire |-> <<WireRequest(req)>>]
      [] net.k = "readerr" ->
            [resp |-> Nil,
             err |-> Ptr(Lit("failed to read response body: ") \o Lit("unexpected EOF")),
             wire |-> <<WireRequest(req)>>]
      [] net.k = "http" ->
            [resp |-> Ptr([Body |-> net.body, StatusCode |-> net.status]),
             err |-> IF net.status >= 400
                     THEN Ptr(<<"HTTP error ", ToString(net.status), ": ">>
                                \o BodyText(net.body))
                     ELSE Nil,
             wire |-> <<WireRequest(req)>>]

(***************************************************************************)
(* openai.AnalyzeImage.                                                    *)
(***************************************************************************)
DefaultModel == Lit("gpt-4o")
DefaultMaxTokens == 1000

Failure(msg) == [Content |-> EmptyString, ErrorMessage |-> msg, Success |-> FALSE]
Success(content) == [Content |-> content, ErrorMessage |-> EmptyString, Success |-> TRUE]

\* WithDefaults taking a zero MaxTokens for a set one
WithDefaultsOnlyNegative(req) ==
    [req EXCEPT !.Model = IF @ = EmptyString THEN DefaultModel ELSE @,
                !.MaxTokens = IF @ < 0 THEN DefaultMaxTokens ELSE @]

\* WithDefaults writing the default token limit over any MaxTokens
WithDefaultsResetsTokens(req) ==
    [req EXCEPT !.Model = IF @ = EmptyString THEN DefaultModel ELSE @,
                !.MaxTokens = DefaultMaxTokens]

\* lines 110-117: the defaults are written into the caller's Request
WithDefaults(req) ==
    [req EXCEPT !.Model = IF @ = EmptyString THEN DefaultModel ELSE @,
                !.MaxTokens = IF @ <= 0 THEN DefaultMaxTokens ELSE @]

\* MessageContent appending the image part whether or not there is an image
MessageContentAlwaysImage(req) ==
    <<[Type |-> Lit("text"), Text |-> req.Prompt, ImageURL |-> Nil],
      [Type |-> Lit("image_url"), Text |-> EmptyString,
       ImageURL |-> Ptr([URL |-> Lit("data:image/jpeg;base64,") \o req.Base64Image])]>>

\* lines 119-135: the content parts of the one message
MessageContent(req) ==
    <<[Type |-> Lit("text"), Text |-> req.Prompt, ImageURL |-> Nil]>>
        \o (IF req.Base64Image # EmptyString
            THEN <<[Type |-> Lit("image_url"), Text |-> EmptyString,
                    ImageURL |-> Ptr([URL |-> Lit("data:image/jpeg;base64,")
                                                \o req.Base64Image])]>>
            ELSE <<>>)

\* lines 137-147
ChatRequest(req) ==
    [Model |-> req.Model,
     Messages |-> <<[Role |-> Lit("user"), Content |-> MessageContent(req)]>>,
     MaxTokens |-> req.MaxTokens]

\* json.Marshal of a content part: "text" and "image_url" are omitempty
MarshalContent(c) ==
    [n \in {"type"} \cup (IF c.Text # EmptyString THEN {"text"} ELSE {})
                    \cup (IF c.ImageURL # Nil THEN {"image_url"} ELSE {}) |->
        CASE n = "type" -> c.Type
          [] n = "text" -> c.Text
          [] n = "image_url" -> [url |-> Deref(c.ImageURL).URL]]

MarshalMessage(m) ==
    [role |-> m.Role,
     content |-> [i \in 1..Len(m.Content) |-> MarshalContent(m.Content[i])]]

\* json.Marshal(chatReq): the document sent as the request body.  Marshaling
\* a struct of strings, ints and slices cannot fail.
Marshal(chatReq) ==
    [model |-> chatReq.Model,
     messages |-> [i \in 1..Len(chatReq.Messages) |-> MarshalMessage(chatReq.Messages[i])],
     max_tokens |-> chatReq.MaxTokens]

\* ParseResponse with the provider's message passed on bare
ParseResponseBareMessage(body) ==
    LET chat == Unmarshal(body) IN
    IF chat.err # Nil
        THEN Failure(Lit("Failed to parse response: ") \o Deref(chat.err))
    ELSE IF chat.v.Error # Nil
        THEN Failure(Deref(chat.v.Error).Message)
    ELSE IF Len(chat.v.Choices) = 0
        THEN Failure(Lit("No response from OpenAI API"))
    ELSE Success(chat.v.Choices[1].Message.Content)

\* ParseResponse surfacing the last choice instead of the first
ParseResponseLastChoice(body) ==
    LET chat == Unmarshal(body) IN
    IF chat.err # Nil
        THEN Failure(Lit("Failed to parse response: ") \o Deref(chat.err))
    ELSE IF chat.v.Error # Nil
        THEN Failure(Lit("OpenAI API error: ") \o Deref(chat.v.Error).Message)
    ELSE IF Len(chat.v.Choices) = 0
        THEN Failure(Lit("No response from OpenAI API"))
    ELSE Success(chat.v.Choices[Len(chat.v.Choices)].Message.Content)

\* ParseResponse without the check for an empty choices list
ParseResponseNoEmptyCheck(body) ==
    LET chat == Unmarshal(body) IN
    IF chat.err # Nil
        THEN Failure(Lit("Failed to parse response: ") \o Deref(chat.err))
    ELSE IF chat.v.Error # Nil
        THEN Failure(Lit("OpenAI API error: ") \o Deref(chat.v.Error).Message)
    ELSE Success(IF Len(chat.v.Choices) = 0 THEN EmptyString
                 ELSE chat.v.Choices[1].Message.Content)

\* ParseResponse ignoring the decoder's error
ParseResponseIgnoresDecodeError(body) ==
    LET chat == Unmarshal(body) IN
    IF chat.v.Error # Nil
        THEN Failure(Lit("OpenAI API error: ") \o Deref(chat.v.Error).Message)
    ELSE IF Len(chat.v.Choices) = 0
        THEN Failure(Lit("No response from OpenAI API"))
    ELSE Success(chat.v.Choices[1].Message.Content)

\* lines 173-201: what AnalyzeImage makes of the body of a response
ParseResponse(body) ==
    LET chat == Unmarshal(body) IN
    IF chat.err # Nil
        THEN Failure(Lit("Failed to parse response: ") \o Deref(chat.err))
    ELSE IF chat.v.Error # Nil
        THEN Failure(Lit("OpenAI API error: ") \o Deref(chat.v.Error).Message)
    ELSE IF Len(chat.v.Choices) = 0
        THEN Failure(Lit("No response from OpenAI API"))
    ELSE Success(chat.v.Choices[1].Message.Content)

\* Exchange posting a second time when the first POST returns an error
ExchangeRetriesOnce(req, net) ==
    LET post == [URL |-> req.APIURL, AuthToken |-> req.APIKey,
                 JSONBody |-> Marshal(ChatRequest(req))]
        first == PostJSON(post, net)
        http == PostJSON(post, net)
    IN  [resp |-> IF http.err # Nil
                  THEN Failure(Lit("HTTP request failed: ") \o Deref(http.err))
                  ELSE ParseResponse(Deref(http.resp).Body),
         parsed |-> http.err = Nil,
         http |-> IF first.err # Nil
                  THEN <<[resp |-> first.resp, err |-> first.err],
                         [resp |-> http.resp, err |-> http.err]>>
                  ELSE <<[resp |-> http.resp, err |-> http.err]>>,
         wire |-> IF first.err # Nil THEN first.wire \o http.wire ELSE http.wire]

\* lines 158-171: the POST and the handling of its error
Exchange(req, net) ==
    LET http == PostJSON([URL |-> req.APIURL, AuthToken |-> req.APIKey,
                          JSONBody |-> Marshal(ChatRequest(req))], net)
    IN  [resp |-> IF http.err # Nil
                  THEN Failure(Lit("HTTP request failed: ") \o Deref(http.err))
                  ELSE ParseResponse(Deref(http.resp).Body),
         parsed |-> http.err = Nil,
         http |-> <<[resp |-> http.resp, err |-> http.err]>>,
         wire |-> http.wire]

\* Validate without the check of the prompt
ValidateNoPrompt(req) ==
    IF req.APIKey = EmptyString THEN Ptr(Lit("API key is required"))
    ELSE IF req.APIURL = EmptyString THEN Ptr(Lit("API URL is required"))
    ELSE Nil

\* lines 88-108: the required fields
Validate(req) ==
    IF req.APIKey = EmptyString THEN Ptr(Lit("API key is required"))
    ELSE IF req.APIURL = EmptyString THEN Ptr(Lit("API URL is required"))
    ELSE IF req.Prompt = EmptyString THEN Ptr(Lit("Prompt is required"))
    ELSE Nil

\* The whole call: the Response and error returned, the caller's Request as
\* the call leaves it, what each PostJSON call made returned, the requests put
\* on the wire, and whether the body of a response was parsed.
AnalyzeImage(req, net) ==
    IF Validate(req) # Nil
    THEN [resp |-> Failure(Deref(Validate(req))), err |-> Nil, req |-> req,
          http |-> <<>>, wire |-> <<>>, parsed |-> FALSE]
    ELSE LET r == WithDefaults(req)
             x == Exchange(r, net)
         IN  [resp |-> x.resp, err |-> Nil, req |-> r,
              http |-> x.http, wire |-> x.wire, parsed |-> x.parsed]

(***************************************************************************)
(* config.Load: the two settings of the .env file.  A missing key is an    *)
(* error (main exits); a missing URL becomes the default one.              *)
(***************************************************************************)
SomeKey == Lit("sk-test")
DefaultURL == Lit("https://api.openai.com/v1/chat/completions")
CustomURL == Lit("https://proxy.example/v1/chat/completions")

Environments ==
    [OPENAI_API_KEY : {EmptyString, SomeKey},
     OPENAI_API_URL : {EmptyString, CustomURL}]

Load(env) ==
    IF env.OPENAI_API_KEY = EmptyString
    THEN [config |-> Nil, err |-> Ptr(Lit("OPENAI_API_KEY not found in .env file"))]
    ELSE [config |-> Ptr([OpenAIAPIKey |-> env.OPENAI_API_KEY,
                          OpenAIAPIURL |-> IF env.OPENAI_API_URL = EmptyString
                                           THEN DefaultURL ELSE env.OPENAI_API_URL]),
          err |-> Nil]

(***************************************************************************)
(* The files the user can pick.  A path is a directory token followed by   *)
(* the base name.  A file is readable or not, has bytes, and is or is not  *)
(* an image that gdk can decode.                                           *)
(***************************************************************************)
Files ==
    { <<"/pics/", "morel.jpg">>, <<"/pics/", "amanita.png">>,
      <<"/pics/", "empty.jpg">>, <<"/pics/", "gone.jpg">>,
      <<"/pics/", "notes.jpg">> }

FileOnDisk(filename) ==
    CASE filename = <<"/pics/", "morel.jpg">> ->
            [readable |-> TRUE, data |-> <<255, 216, 255>>, image |-> TRUE]
      [] filename = <<"/pics/", "amanita.png">> ->
            [readable |-> TRUE, data |-> <<137, 80>>, image |-> TRUE]
      [] filename = <<"/pics/", "empty.jpg">> ->
            [readable |-> TRUE, data |-> <<>>, image |-> FALSE]
      [] filename = <<"/pics/", "gone.jpg">> ->
            [readable |-> FALSE, data |-> <<>>, image |-> FALSE]
      [] filename = <<"/pics/", "notes.jpg">> ->
            [readable |-> TRUE, data |-> <<110>>, image |-> FALSE]

\* filepath.Base
Base(filename) == <<filename[Len(filename)]>>

\* os.ReadFile / opening the file for reading
ReadFile(filename) ==
    IF FileOnDisk(filename).readable
    THEN [data |-> FileOnDisk(filename).data, err |-> Nil]
    ELSE [data |-> <<>>,
          err |-> Ptr(Lit("open ") \o filename \o Lit(": no such file or directory"))]

\* base64.ReadImageToBase64
ReadImageToBase64(filename) ==
    LET f == ReadFile(filename) IN
    IF f.err # Nil
        THEN [encoded |-> EmptyString,
              err |-> Ptr(Lit("failed to read file ") \o filename \o Lit(": ")
                            \o Deref(f.err))]
    ELSE IF Len(f.data) = 0
        THEN [encoded |-> EmptyString,
              err |-> Ptr(Lit("file ") \o filename \o Lit(" is empty"))]
    ELSE [encoded |-> EncodeData(f.data), err |-> Nil]

\* gdk.PixbufNewFromFile
PixbufNewFromFile(filename) ==
    IF FileOnDisk(filename).image THEN Nil
    ELSE Ptr(Lit("Couldn't recognize the image file format for file ") \o filename)

(***************************************************************************)
(* State.                                                                  *)
(***************************************************************************)
VARIABLES
    call,           \* a direct call of AnalyzeImage: its Request, and what it returned
    frontend,       \* which build of package gui runs: "fyne" or "gtk"
    Config,         \* App.Config
    ImagePath,      \* App.ImagePath
    Base64Image,    \* App.Base64Image
    ImageView,      \* the file App.ImageView shows (empty: none)
    UploadEnabled,  \* App.UploadButton is enabled / sensitive
    ClassifyEnabled,\* App.ClassifyButton is enabled / sensitive
    StatusLabel,    \* text of App.StatusLabel
    ResultView,     \* text of App.ResultView
    modals,         \* the modal dialogs open, as a stack: the last one has the input
    workers,        \* the goroutines started by onClassifyClicked, as a bag
    idle            \* glib's queue of idle callbacks (GTK), oldest first

gui == <<frontend, Config, ImagePath, Base64Image, ImageView, UploadEnabled,
         ClassifyEnabled, StatusLabel, ResultView, modals, workers, idle>>

vars == <<call, gui>>

(***************************************************************************)
(* The GUI controllers.  Handlers run on the UI thread, one at a time; a   *)
(* modal dialog (Fyne: an overlay of the window, GTK: dialog.Run) takes    *)
(* the input from the buttons until it is closed.                          *)
(***************************************************************************)
Frontends == {"fyne", "gtk"}

\* Goroutines have no names: those alive are a bag of their states, and a
\* step of one replaces its state.
Started(w) == workers (+) SetToBag({w})
Ended(w) == workers (-) SetToBag({w})
Stepped(w, next) == Ended(w) (+) SetToBag({next})
Alive == BagToSet(workers)

\* the requests whose completion has not been handled yet
Pending == BagCardinality(workers) + Len(idle)

\* NewApp leaving the classify button enabled
InitAppClassifyEnabled(fe, cfg) ==
    /\ frontend = fe
    /\ Config = cfg
    /\ ImagePath = EmptyString
    /\ Base64Image = EmptyString
    /\ ImageView = EmptyString
    /\ UploadEnabled = TRUE
    /\ ClassifyEnabled = TRUE
    /\ StatusLabel = Lit("Select an image to begin")
    /\ ResultView = EmptyString
    /\ modals = <<>>
    /\ workers = EmptyBag
    /\ idle = <<>>

\* NewApp / createUI
InitApp(fe, cfg) ==
    /\ frontend = fe
    /\ Config = cfg
    /\ ImagePath = EmptyString
    /\ Base64Image = EmptyString
    /\ ImageView = EmptyString
    /\ UploadEnabled = TRUE
    /\ ClassifyEnabled = FALSE
    /\ StatusLabel = Lit("Select an image to begin")
    /\ ResultView = EmptyString
    /\ modals = <<>>
    /\ workers = EmptyBag
    /\ idle = <<>>

\* AnalyzeImage is not being called directly
NoCall == [pc |-> "none"]

\* main: Load, then NewApp; a configuration error is fatal
Init ==
    /\ call = NoCall
    /\ \E fe \in Frontends, env \in Environments :
          /\ Load(env).err = Nil
          /\ InitApp(fe, Deref(Load(env).config))

\* getMushroomPrompt
MushroomPrompt == Lit("You are an expert mycologist. Analyze this image of a mushroom ...")

\* what the network does to the requests of the GUI: a timeout, a completion,
\* a provider error with status 200 and with status 400, no JSON, no choices
GuiNets ==
    { [k |-> "neterr",
       cause |-> Lit("context deadline exceeded (Client.Timeout exceeded while awaiting headers)")],
      [k |-> "http", status |-> 200,
       body |-> [k |-> "object", error |-> JAbsent,
                 choices |-> [t |-> "array", v |-> <<JChoice(JString(<<"a">>))>>]]],
      [k |-> "http", status |-> 200,
       body |-> [k |-> "object",
                 error |-> [t |-> "object", message |-> JString(<<"%", "a">>)],
                 choices |-> JAbsent]],
      [k |-> "http", status |-> 400,
       body |-> [k |-> "object",
                 error |-> [t |-> "object", message |-> JString(<<"a">>)],
                 choices |-> JAbsent]],
      [k |-> "http", status |-> 200, body |-> [k |-> "garbage", text |-> <<"%">>]],
      [k |-> "http", status |-> 200,
       body |-> [k |-> "object", error |-> JAbsent, choices |-> JAbsent]] }

FileDialog == [kind |-> "file"]

\* An error dialog: its text; which handler showed it; for a failed analysis
\* the ErrorMessage it reports; what its handler still does once it is closed.
ErrorDialog(text, origin, cause, after) ==
    [kind |-> "error", text |-> text, origin |-> origin, cause |-> cause,
     after |-> after]

\* App.showError of gui.go: the text of the dialog
ShowErrorFyne(message, err) ==
    SprintfNoArgs(IF err = Nil THEN message ELSE message \o Lit(": ") \o Deref(err))

\* App.showError of the GTK build: fmt.Sprintf(format, arg) with one %v or %s
ShowErrorGtk(prefix, arg) == prefix \o arg

Top == modals[Len(modals)]
Pop == SubSeq(modals, 1, Len(modals) - 1)

\* loadImage forgetting the image held when the new one cannot be read
LoadImageFyneClearsOnError(filename) ==
    LET b == ReadImageToBase64(filename) IN
    IF b.err # Nil
    THEN [err |-> b.err, Base64Image |-> b.encoded, ImageView |-> ImageView]
    ELSE [err |-> Nil, Base64Image |-> b.encoded, ImageView |-> filename]

\* App.loadImage of gui.go
LoadImageFyne(filename) ==
    LET b == ReadImageToBase64(filename) IN
    IF b.err # Nil
    THEN [err |-> b.err, Base64Image |-> Base64Image, ImageView |-> ImageView]
    ELSE [err |-> Nil, Base64Image |-> b.encoded, ImageView |-> filename]

\* App.loadImage of the GTK build
LoadImageGtk(filename) ==
    LET b == ReadImageToBase64(filename) IN
    IF b.err # Nil
        THEN [err |-> b.err, Base64Image |-> Base64Image, ImageView |-> ImageView]
    ELSE IF PixbufNewFromFile(filename) # Nil
        THEN [err |-> PixbufNewFromFile(filename), Base64Image |-> b.encoded,
              ImageView |-> ImageView]
    ELSE [err |-> Nil, Base64Image |-> b.encoded, ImageView |-> filename]

\* onUploadClicked up to the point where the file dialog is shown (Fyne) or
\* run (GTK, where creating the dialog may fail)
OnUploadClicked ==
    /\ UploadEnabled
    /\ modals = <<>>
    /\ \E created \in BOOLEAN :
          modals' = IF frontend = "gtk" /\ ~created
                    THEN <<ErrorDialog(
                              ShowErrorGtk(Lit("Failed to create file dialog: "),
                                           Lit("gtk_file_chooser_dialog_new returned nil")),
                              "upload", EmptyString, "none")>>
                    ELSE <<FileDialog>>
    /\ UNCHANGED <<call, frontend, Config, ImagePath, Base64Image, ImageView,
                   UploadEnabled, ClassifyEnabled, StatusLabel, ResultView,
                   workers, idle>>

\* the rest of onUploadClicked, once the user has answered the file dialog:
\* choice is <<>> for Cancel, or the file picked
FileDialogAnswered(choice) ==
    /\ modals # <<>>
    /\ Top = FileDialog
    /\ LET opened == ReadFile(choice)
           loaded == IF frontend = "fyne" THEN LoadImageFyne(choice)
                     ELSE LoadImageGtk(choice)
       IN
       IF choice = <<>> THEN
           /\ modals' = Pop
           /\ UNCHANGED <<ImagePath, Base64Image, ImageView, ClassifyEnabled,
                          StatusLabel>>
       ELSE IF frontend = "fyne" /\ opened.err # Nil THEN
           \* the dialog could not open the file: the callback gets the error
           /\ modals' = Append(Pop, ErrorDialog(
                            ShowErrorFyne(Lit("Failed to open file dialog"), opened.err),
                            "upload", EmptyString, "none"))
           /\ UNCHANGED <<ImagePath, Base64Image, ImageView, ClassifyEnabled,
                          StatusLabel>>
       ELSE IF loaded.err # Nil THEN
           /\ modals' = Append(Pop, ErrorDialog(
                            IF frontend = "fyne"
                            THEN ShowErrorFyne(Lit("Failed to load image"), loaded.err)
                            ELSE ShowErrorGtk(Lit("Failed to load image: "),
                                              Deref(loaded.err)),
                            "upload", EmptyString, "none"))
           /\ Base64Image' = loaded.Base64Image
           /\ ImageView' = loaded.ImageView
           /\ UNCHANGED <<ImagePath, ClassifyEnabled, StatusLabel>>
       ELSE
           /\ modals' = Pop
           /\ Base64Image' = loaded.Base64Image
           /\ ImageView' = loaded.ImageView
           /\ ImagePath' = choice
           /\ StatusLabel' = Lit("Loaded: ") \o Base(choice)
           /\ ClassifyEnabled' = TRUE
    /\ UNCHANGED <<call, frontend, Config, UploadEnabled, ResultView, workers, idle>>

\* the openai.Request onClassifyClicked builds
ClassifyRequest ==
    [APIKey |-> Config.OpenAIAPIKey,
     APIURL |-> Config.OpenAIAPIURL,
     Model |-> Lit("gpt-4o"),
     Prompt |-> MushroomPrompt,
     Base64Image |-> Base64Image,
     MaxTokens |-> 1000]

\* onClassifyClicked, up to and including the go statement
OnClassifyClicked ==
    /\ ClassifyEnabled
    /\ modals = <<>>
    /\ Pending < MaxWorkers
    /\ IF Base64Image = EmptyString THEN
           /\ modals' = <<ErrorDialog(
                            IF frontend = "fyne"
                            THEN ShowErrorFyne(Lit("No image loaded"), Nil)
                            ELSE SprintfNoArgs(Lit("No image loaded")),
                            "classify", EmptyString, "none")>>
           /\ UNCHANGED <<UploadEnabled, ClassifyEnabled, StatusLabel, ResultView,
                          workers>>
       ELSE
           /\ UploadEnabled' = FALSE
           /\ ClassifyEnabled' = FALSE
           /\ StatusLabel' = Lit("Analyzing image...")
           /\ ResultView' = IF frontend = "fyne" THEN Lit("Processing...")
                            ELSE EmptyString
           /\ workers' = Started([pc |-> "analyze", req |-> ClassifyRequest])
           /\ UNCHANGED modals
    /\ UNCHANGED <<call, frontend, Config, ImagePath, Base64Image, ImageView, idle>>

\* the goroutine: resp, err := openai.AnalyzeImage(req)
WorkerAnalyze(w) ==
    /\ w.pc = "analyze"
    /\ \E net \in GuiNets :
          LET r == AnalyzeImage(w.req, net) IN
          workers' = Stepped(w, [pc |-> "returned", req |-> r.req, resp |-> r.resp,
                                 err |-> r.err, posts |-> Len(r.http)])
    /\ UNCHANGED <<call, frontend, Config, ImagePath, Base64Image, ImageView,
                   UploadEnabled, ClassifyEnabled, StatusLabel, ResultView,
                   modals, idle>>

\* gui.go 203-215: the goroutine itself shows the outcome
WorkerShowsOutcome(w) ==
    /\ frontend = "fyne"
    /\ w.pc = "returned"
    /\ LET resp == w.resp
           err == w.err
       IN
       IF err # Nil THEN
           /\ modals' = Append(modals, ErrorDialog(
                            ShowErrorFyne(Lit("Analysis failed"), err),
                            "analysis", Deref(err), "none"))
           /\ StatusLabel' = Lit("Analysis failed")
           /\ ResultView' = EmptyString
       ELSE IF ~resp.Success THEN
           \* fmt.Errorf(resp.ErrorMessage): the message is the format
           /\ modals' = Append(modals, ErrorDialog(
                            ShowErrorFyne(Lit("Analysis failed"),
                                          Ptr(SprintfNoArgs(resp.ErrorMessage))),
                            "analysis", resp.ErrorMessage, "none"))
           /\ StatusLabel' = Lit("Analysis failed")
           /\ ResultView' = EmptyString
       ELSE
           /\ ResultView' = resp.Content
           /\ StatusLabel' = Lit("Analysis complete")
           /\ UNCHANGED modals
    /\ workers' = Stepped(w, [pc |-> "enableUpload"])
    /\ UNCHANGED <<call, frontend, Config, ImagePath, Base64Image, ImageView,
                   UploadEnabled, ClassifyEnabled, idle>>

\* gui.go 218: app.UploadButton.Enable()
WorkerEnablesUpload(w) ==
    /\ w.pc = "enableUpload"
    /\ UploadEnabled' = TRUE
    /\ workers' = Stepped(w, [pc |-> "enableClassify"])
    /\ UNCHANGED <<call, frontend, Config, ImagePath, Base64Image, ImageView,
                   ClassifyEnabled, StatusLabel, ResultView, modals, idle>>

\* gui.go 219: app.ClassifyButton.Enable(), and the goroutine ends
WorkerEnablesClassify(w) ==
    /\ w.pc = "enableClassify"
    /\ ClassifyEnabled' = TRUE
    /\ workers' = Ended(w)
    /\ UNCHANGED <<call, frontend, Config, ImagePath, Base64Image, ImageView,
                   UploadEnabled, StatusLabel, ResultView, modals, idle>>

\* GTK build 258: glib.IdleAdd(func() {...}), and the goroutine ends; its
\* result waits in the queue
WorkerIdleAdd(w) ==
    /\ frontend = "gtk"
    /\ w.pc = "returned"
    /\ idle' = Append(idle, [resp |-> w.resp, err |-> w.err, req |-> w.req])
    /\ workers' = Ended(w)
    /\ UNCHANGED <<call, frontend, Config, ImagePath, Base64Image, ImageView,
                   UploadEnabled, ClassifyEnabled, StatusLabel, ResultView, modals>>

\* GTK build 258-281: the main loop runs the oldest idle callback, up to the
\* point where it returns or waits in showError
IdleCallback ==
    /\ idle # <<>>
    /\ LET resp == Head(idle).resp
           err == Head(idle).err
       IN
       /\ UploadEnabled' = TRUE
       /\ ClassifyEnabled' = TRUE
       /\ IF err # Nil THEN
              /\ modals' = Append(modals, ErrorDialog(
                               ShowErrorGtk(Lit("Analysis failed: "), Deref(err)),
                               "analysis", Deref(err), "status"))
              /\ UNCHANGED <<StatusLabel, ResultView>>
          ELSE IF ~resp.Success THEN
              /\ modals' = Append(modals, ErrorDialog(
                               ShowErrorGtk(Lit("Analysis failed: "), resp.ErrorMessage),
                               "analysis", resp.ErrorMessage, "status"))
              /\ UNCHANGED <<StatusLabel, ResultView>>
          ELSE
              /\ ResultView' = resp.Content
              /\ StatusLabel' = Lit("Analysis complete")
              /\ UNCHANGED modals
    /\ idle' = Tail(idle)
    /\ UNCHANGED <<call, frontend, Config, ImagePath, Base64Image, ImageView, workers>>

\* the user closes the error dialog on top; in the GTK build showError then
\* returns and the idle callback sets the status
ErrorDialogClosed ==
    /\ modals # <<>>
    /\ Top.kind = "error"
    /\ modals' = Pop
    /\ StatusLabel' = IF Top.after = "status" THEN Lit("Analysis failed")
                      ELSE StatusLabel
    /\ UNCHANGED <<call, frontend, Config, ImagePath, Base64Image, ImageView,
                   UploadEnabled, ClassifyEnabled, ResultView, workers, idle>>

\* a step of some goroutine
WorkerStep ==
    \/ \E w \in Alive : WorkerAnalyze(w)
    \/ \E w \in Alive : WorkerShowsOutcome(w)
    \/ \E w \in Alive : WorkerEnablesUpload(w)
    \/ \E w \in Alive : WorkerEnablesClassify(w)
    \/ \E w \in Alive : WorkerIdleAdd(w)

Next ==
    \/ OnUploadClicked
    \/ \E choice \in {<<>>} \cup Files : FileDialogAnswered(choice)
    \/ OnClassifyClicked
    \/ ErrorDialogClosed
    \/ WorkerStep
    \/ IdleCallback

Spec == Init /\ [][Next]_vars

\* The Go scheduler runs every goroutine that can run, and the GTK main loop
\* runs every queued idle callback; the user owes nothing.
FairSpec ==
    /\ Spec
    /\ WF_vars(WorkerStep)
    /\ WF_vars(IdleCallback)

(***************************************************************************)
(* AnalyzeImage called directly, on any Request: the fields are drawn from *)
(* empty and non-empty values, the token limit from both signs.            *)
(***************************************************************************)
SomeURL == DefaultURL
SomePrompt == Lit("You are an expert mycologist.")
SomeModel == Lit("gpt-4o-mini")
SomeImage == EncodeData(<<255, 216, 255>>)

Requests ==
    [APIKey : {EmptyString, SomeKey},
     APIURL : {EmptyString, SomeURL},
     Model : {EmptyString, SomeModel},
     Prompt : {EmptyString, SomePrompt},
     Base64Image : {EmptyString, SomeImage},
     MaxTokens : {-1, 0, 500}]

\* no GUI runs beside a direct call
InitAnalyze ==
    /\ \E req \in Requests : call = [pc |-> "ready", req |-> req]
    /\ InitApp("none", Deref(Load([OPENAI_API_KEY |-> SomeKey,
                                    OPENAI_API_URL |-> EmptyString]).config))

\* resp, err := openai.AnalyzeImage(req), the network doing any of Nets
Call ==
    /\ call.pc = "ready"
    /\ \E net \in Nets :
          call' = [pc |-> "returned", req |-> call.req, net |-> net,
                   ret |-> AnalyzeImage(call.req, net)]
    /\ UNCHANGED gui

\* the caller calls again with the same Request, as the first call left it
CallAgain ==
    /\ call.pc = "returned"
    /\ call' = [pc |-> "ready", req |-> call.ret.req]
    /\ UNCHANGED gui

NextAnalyze == Call \/ CallAgain

SpecAnalyze == InitAnalyze /\ [][NextAnalyze]_vars

(***************************************************************************)
(* Properties of the direct call (SpecAnalyze).                            *)
(***************************************************************************)
Returned == call.pc = "returned"

HasSuffix(s, p) == Len(s) >= Len(p) /\ SubSeq(s, Len(s) - Len(p) + 1, Len(s)) = p

\* A response arrived with a status below 400, so its body was handed to the
\* decoder.
BodyDecoded == Returned /\ call.ret.parsed /\ call.net.k = "http"

\* The body is a JSON object every member of which has the JSON type the
\* schema gives it (missing and null members included).
WellTyped(body) ==
    /\ body.k = "object"
    /\ body.error.t # "number"
    /\ body.error.t = "object" => body.error.message.t # "number"
    /\ body.choices.t # "number"
    /\ body.choices.t = "array" =>
          \A i \in 1..Len(body.choices.v) : body.choices.v[i].content.t # "number"

HasErrorObject(body) == WellTyped(body) /\ body.error.t = "object"

\* the choices list of a well-typed body without an error object
ChoiceList(body) == IF body.choices.t = "array" THEN body.choices.v ELSE <<>>

NoErrorObject(body) == WellTyped(body) /\ body.error.t # "object"

\* C1: a request whose APIKey, APIURL or Prompt is empty yields a Failure, no
\* call of PostJSON is made and nothing is put on the wire.
C1_EmptyFieldNeverPosted ==
    (Returned /\ (call.req.APIKey = EmptyString \/ call.req.APIURL = EmptyString
                    \/ call.req.Prompt = EmptyString))
        => /\ ~call.ret.resp.Success
           /\ call.ret.resp.ErrorMessage # EmptyString
           /\ call.ret.http = <<>>
           /\ call.ret.wire = <<>>

C1_Witness ==
    /\ Returned
    /\ call.req.APIKey # EmptyString /\ call.req.APIURL # EmptyString
    /\ call.req.Prompt = EmptyString
    /\ call.net.k = "http" /\ call.net.status = 200
    /\ call.ret.http = <<>>

\* C4: every call returns a nil error and a Response that is a Success (flag
\* set, no error message) or a Failure (flag clear, a non-empty error message,
\* no content), whatever the request and whatever the network did.
C4_OneResultShape ==
    Returned =>
        /\ call.ret.err = Nil
        /\ \/ /\ call.ret.resp.Success
              /\ call.ret.resp.ErrorMessage = EmptyString
           \/ /\ ~call.ret.resp.Success
              /\ call.ret.resp.ErrorMessage # EmptyString
              /\ call.ret.resp.Content = EmptyString

\* an API error object with an empty message, on a status below 400
C4_Witness ==
    /\ BodyDecoded
    /\ HasErrorObject(call.net.body)
    /\ call.net.body.error.message = JString(EmptyString)
    /\ ~call.ret.resp.Success

\* C5 (as claimed): a body that decodes to a document with an error object
\* yields a Failure whose message ends with the object's message, whatever the
\* status code and whatever the choices list.
C5_ErrorObjectWinsAtAnyStatus ==
    (Returned /\ call.ret.http # <<>> /\ call.net.k = "http"
        /\ HasErrorObject(call.net.body))
        => /\ ~call.ret.resp.Success
           /\ HasSuffix(call.ret.resp.ErrorMessage,
                        StringMember(call.net.body.error.message))

\* C5, the part the code keeps: the same for a status below 400.
C5_ErrorObjectWinsBelow400 ==
    (BodyDecoded /\ HasErrorObject(call.net.body))
        => call.ret.resp
             = Failure(Lit("OpenAI API error: ")
                         \o StringMember(call.net.body.error.message))

\* C6: PostJSON returns the response and a non-nil error for a status >= 400,
\* the response and a nil error for a status below 400, and a nil response
\* with a non-nil error when the request could not be created, performed or
\* read.
C6_PostJSONResults ==
    (Returned /\ call.ret.http # <<>>) =>
        LET r == call.ret.http[1] IN
        /\ (call.net.k = "http" /\ call.net.status >= 400) =>
              /\ r.resp = Ptr([Body |-> call.net.body, StatusCode |-> call.net.status])
              /\ r.err # Nil
        /\ (call.net.k = "http" /\ call.net.status < 400) =>
              /\ r.resp = Ptr([Body |-> call.net.body, StatusCode |-> call.net.status])
              /\ r.err = Nil
        /\ call.net.k \in {"badurl", "neterr", "readerr"} =>
              /\ r.resp = Nil
              /\ r.err # Nil

C6_Witness ==
    /\ Returned /\ call.ret.http # <<>>
    /\ call.net.k = "http" /\ call.net.status = 400
    /\ call.ret.http[1].resp # Nil /\ call.ret.http[1].err # Nil

\* C7: a decoded body without an error object and with a non-empty choices
\* list yields the Success whose content is that of the first choice, and no
\* later choice's content when it differs.
C7_FirstChoiceOnly ==
    (BodyDecoded /\ NoErrorObject(call.net.body)
        /\ Len(ChoiceList(call.net.body)) > 0)
        => LET l == ChoiceList(call.net.body) IN
           /\ call.ret.resp = Success(StringMember(l[1].content))
           /\ \A i \in 2..Len(l) :
                 StringMember(l[i].content) # StringMember(l[1].content)
                     => call.ret.resp.Content # StringMember(l[i].content)

C7_Witness ==
    /\ BodyDecoded /\ NoErrorObject(call.net.body)
    /\ Len(ChoiceList(call.net.body)) = 2
    /\ call.net.body.choices.v[1].content = JString(<<"a">>)
    /\ call.net.body.choices.v[2].content = JString(<<"%">>)
    /\ call.ret.resp.Success

\* C8 (as claimed): a decoded body with no error object and an empty or absent
\* choices list yields the Failure "No response from API".
C8_NoResponseFromAPI ==
    (BodyDecoded /\ NoErrorObject(call.net.body)
        /\ Len(ChoiceList(call.net.body)) = 0)
        => call.ret.resp = Failure(Lit("No response from API"))

\* C8 (amended): ... yields the Failure "No response from OpenAI API".
C8_NoResponseFromOpenAIAPI ==
    (BodyDecoded /\ NoErrorObject(call.net.body)
        /\ Len(ChoiceList(call.net.body)) = 0)
        => call.ret.resp = Failure(Lit("No response from OpenAI API"))

C8_Witness ==
    /\ BodyDecoded /\ NoErrorObject(call.net.body)
    /\ call.net.body.choices = JAbsent
    /\ ~call.ret.resp.Success

\* The body is not JSON, or is JSON that is not the chat-completion document:
\* not an object, a member of the wrong type, a choice without
\* message.content, or neither a choices list nor an error object.
Malformed(body) == body.k = "garbage"

WrongType(body) == body.k = "array" \/ (body.k = "object" /\ ~WellTyped(body))

LacksContent(body) ==
    /\ NoErrorObject(body)
    /\ \E i \in 1..Len(ChoiceList(body)) : ChoiceList(body)[i].content.t # "string"

NeitherChoicesNorError(body) ==
    /\ body.k = "object"
    /\ body.error.t = "absent"
    /\ body.choices.t = "absent"

\* C9 (as claimed): such a body yields a Failure "Failed to parse response"
\* (read: a message that starts so) and never a Success.
C9_SchemaMismatchFailsToParse ==
    (BodyDecoded /\ (Malformed(call.net.body) \/ WrongType(call.net.body)
                       \/ LacksContent(call.net.body)
                       \/ NeitherChoicesNorError(call.net.body)))
        => /\ ~call.ret.resp.Success
           /\ HasPrefix(call.ret.resp.ErrorMessage, Lit("Failed to parse response"))

\* C9 (amended): a body that is not JSON, or whose top-level value or one of
\* whose members has the wrong JSON type, yields a Failure whose message is
\* "Failed to parse response: " followed by the decoder's error, never a
\* Success; a missing member is no mismatch: a document with neither choices
\* nor error yields the Failure "No response from OpenAI API", and a first
\* choice without message.content yields a Success with empty content.
C9_DecodeErrorFailsToParse ==
    /\ (BodyDecoded /\ (Malformed(call.net.body) \/ WrongType(call.net.body)))
          => /\ ~call.ret.resp.Success
             /\ HasPrefix(call.ret.resp.ErrorMessage, Lit("Failed to parse response: "))
             /\ Len(call.ret.resp.ErrorMessage) > 1
    /\ (BodyDecoded /\ NeitherChoicesNorError(call.net.body))
          => call.ret.resp = Failure(Lit("No response from OpenAI API"))
    /\ (BodyDecoded /\ NoErrorObject(call.net.body)
          /\ Len(ChoiceList(call.net.body)) > 0
          /\ ChoiceList(call.net.body)[1].content.t # "string")
          => call.ret.resp = Success(EmptyString)

\* a first choice without message.content, surfaced as an empty Success
C9_Witness ==
    /\ BodyDecoded
    /\ call.net.body.k = "object" /\ call.net.body.error = JAbsent
    /\ call.net.body.choices.t = "array" /\ Len(call.net.body.choices.v) = 1
    /\ call.net.body.choices.v[1].content = JAbsent
    /\ call.ret.resp = Success(EmptyString)

\* a body that is no JSON, reported with the decoder's error
C9_WitnessMalformed ==
    /\ BodyDecoded
    /\ call.net.body = [k |-> "garbage", text |-> <<"a">>]
    /\ ~call.ret.resp.Success

\* C10: the document put on the wire has exactly one message, of role "user",
\* whose content starts with the text part carrying the prompt and has a
\* second part, the image part with URL "data:image/jpeg;base64," followed by
\* the encoded image, exactly when Base64Image is non-empty; it has no third.
C10_PayloadShape ==
    (Returned /\ call.ret.wire # <<>>) =>
        LET doc == call.ret.wire[1].Body
            parts == doc.messages[1].content
        IN  /\ Len(doc.messages) = 1
            /\ doc.messages[1].role = Lit("user")
            /\ Len(parts) \in {1, 2}
            /\ parts[1] = [type |-> Lit("text"), text |-> call.req.Prompt]
            /\ Len(parts) = 2 <=> call.req.Base64Image # EmptyString
            /\ Len(parts) = 2 =>
                  parts[2] = [type |-> Lit("image_url"),
                              image_url |-> [url |-> Lit("data:image/jpeg;base64,")
                                                       \o call.req.Base64Image]]

C10_Witness ==
    /\ Returned /\ call.ret.wire # <<>>
    /\ call.req.Base64Image # EmptyString
    /\ Len(call.ret.wire[1].Body.messages[1].content) = 2

C10_WitnessTextOnly ==
    /\ Returned /\ call.ret.wire # <<>>
    /\ call.req.Base64Image = EmptyString
    /\ Len(call.ret.wire[1].Body.messages[1].content) = 1

\* C11: in every document put on the wire max_tokens is positive and model is
\* non-empty: a MaxTokens of zero (unset) or below is sent as 1000, an empty
\* Model as "gpt-4o", a positive MaxTokens and a non-empty Model as they are.
C11_DefaultsInPayload ==
    (Returned /\ call.ret.wire # <<>>) =>
        LET doc == call.ret.wire[1].Body IN
        /\ doc.max_tokens > 0
        /\ doc.model # EmptyString
        /\ doc.max_tokens = IF call.req.MaxTokens <= 0 THEN 1000
                             ELSE call.req.MaxTokens
        /\ doc.model = IF call.req.Model = EmptyString THEN Lit("gpt-4o")
                        ELSE call.req.Model

\* an unset MaxTokens and an empty Model, sent with the defaults
C11_Witness ==
    /\ Returned /\ call.ret.wire # <<>>
    /\ call.req.MaxTokens = 0 /\ call.req.Model = EmptyString
    /\ call.ret.wire[1].Body.max_tokens = 1000
    /\ call.ret.wire[1].Body.model = Lit("gpt-4o")

\* a positive MaxTokens and a Model of the caller's, sent as they are
C11_WitnessUnchanged ==
    /\ Returned /\ call.ret.wire # <<>>
    /\ call.req.MaxTokens = 500 /\ call.req.Model = SomeModel
    /\ call.ret.wire[1].Body.max_tokens = 500
    /\ call.ret.wire[1].Body.model = SomeModel

\* C12: one call of AnalyzeImage calls PostJSON at most once and puts at most
\* one request on the wire, whatever the network did with it: after a transport
\* error, a timeout or an error status there is no second attempt.
C12_AtMostOnePost ==
    Returned =>
        /\ Len(call.ret.http) <= 1
        /\ Len(call.ret.wire) <= 1
        /\ Len(call.ret.wire) <= Len(call.ret.http)

\* a timeout, after one POST and no more
C12_Witness ==
    /\ Returned
    /\ IsTimeout(call.net)
    /\ Len(call.ret.http) = 1 /\ Len(call.ret.wire) = 1
    /\ ~call.ret.resp.Success

\* an error status, after one POST and no more
C12_WitnessErrorStatus ==
    /\ Returned
    /\ call.net.k = "http" /\ call.net.status = 500
    /\ Len(call.ret.http) = 1 /\ Len(call.ret.wire) = 1

\* C19: the call leaves APIKey, APIURL, Prompt and Base64Image of the caller's
\* Request as they were; Model changes only from empty, to the default, and
\* MaxTokens only from <= 0, to the default; a call that fails validation
\* leaves the whole Request as it was; and a second call with the Request as
\* the first left it changes it no more and puts the same document on the wire.
C19_RequestFrame ==
    Returned =>
        LET before == call.req
            after == call.ret.req
            again == AnalyzeImage(after, call.net)
        IN  /\ after.APIKey = before.APIKey
            /\ after.APIURL = before.APIURL
            /\ after.Prompt = before.Prompt
            /\ after.Base64Image = before.Base64Image
            /\ after.Model # before.Model =>
                  (before.Model = EmptyString /\ after.Model = Lit("gpt-4o"))
            /\ after.MaxTokens # before.MaxTokens =>
                  (before.MaxTokens <= 0 /\ after.MaxTokens = 1000)
            /\ (before.APIKey = EmptyString \/ before.APIURL = EmptyString
                    \/ before.Prompt = EmptyString) => after = before
            /\ again.req = after
            /\ again.wire = call.ret.wire

\* the defaults written back into the caller's Request
C19_Witness ==
    /\ Returned /\ call.ret.wire # <<>>
    /\ call.req.Model = EmptyString /\ call.ret.req.Model = Lit("gpt-4o")
    /\ call.req.MaxTokens = -1 /\ call.ret.req.MaxTokens = 1000
    /\ call.ret.req.Base64Image = SomeImage

\* a failed validation: no default written
C19_WitnessInvalid ==
    /\ Returned
    /\ call.req.Prompt = EmptyString
    /\ call.req.Model = EmptyString /\ call.req.MaxTokens = 0
    /\ call.ret.req = call.req

\* the second call, made with the defaults of the first in the Request
C19_WitnessAgain ==
    /\ Returned /\ call.ret.wire # <<>>
    /\ call.req.Model = Lit("gpt-4o") /\ call.req.MaxTokens = 1000
    /\ call.ret.req = call.req

(***************************************************************************)
(* Properties of the GUI (Spec, FairSpec).                                 *)
(***************************************************************************)
\* the AnalyzeImage calls that have been started and have not returned
Outstanding ==
    BagCardinality([w \in {x \in Alive : x.pc = "analyze"} |-> CopiesIn(w, workers)])

\* C2 (as claimed): at most one AnalyzeImage call is outstanding at any time.
C2_AtMostOneOutstanding == Outstanding <= 1

\* C2 holds of the GTK build, whose completion runs as one idle callback on
\* the UI thread: one call at most, and the trigger disabled until the
\* callback runs.
C2_GtkAtMostOneOutstanding ==
    frontend = "gtk" =>
        /\ Pending <= 1
        /\ Pending > 0 => (~ClassifyEnabled /\ ~UploadEnabled)

\* C3 (as claimed), the dialog: the error dialog of a failed analysis contains
\* the error text, the ErrorMessage of the Response.
C3_FailureDialogCarriesErrorText ==
    \A i \in 1..Len(modals) :
        (modals[i].kind = "error" /\ modals[i].origin = "analysis")
            => Contains(modals[i].text, modals[i].cause)

\* C3 holds of the GTK build, which formats the message as an operand.
C3_GtkFailureDialogCarriesErrorText ==
    frontend = "gtk" =>
        \A i \in 1..Len(modals) :
            (modals[i].kind = "error" /\ modals[i].origin = "analysis")
                => modals[i].text = Lit("Analysis failed: ") \o modals[i].cause

\* C3, the progress (FairSpec): a started classification is followed by a
\* state with both buttons enabled again.
C3_EventuallyReenabled == (Pending > 0) ~> (UploadEnabled /\ ClassifyEnabled)

\* the file cannot be read, or has no bytes
Unloadable(f) == ~FileOnDisk(f).readable \/ FileOnDisk(f).data = <<>>

\* C13: picking a file that is unreadable or has zero bytes fails:
\* ReadImageToBase64 returns an error and no encoding, an error dialog opens,
\* and Base64Image, ImagePath, the status label and the classify button's
\* state are what they were before.
C13_FailedLoadKeepsState ==
    [][\A f \in Files :
          (Unloadable(f) /\ FileDialogAnswered(f)) =>
              /\ ReadImageToBase64(f).err # Nil
              /\ ReadImageToBase64(f).encoded = EmptyString
              /\ modals' # <<>>
              /\ modals'[Len(modals')].kind = "error"
              /\ modals'[Len(modals')].origin = "upload"
              /\ Contains(modals'[Len(modals')].text, f)
              /\ UNCHANGED <<Base64Image, ImagePath, StatusLabel, ClassifyEnabled>>]_vars

\* an empty file was picked while an image was loaded: the error is on
\* screen and the image is still held
C13_Witness ==
    /\ modals # <<>>
    /\ Top.kind = "error" /\ Top.origin = "upload"
    /\ Contains(Top.text, Lit(" is empty"))
    /\ ImagePath # EmptyString
    /\ Base64Image = EncodeData(FileOnDisk(ImagePath).data)
    /\ ClassifyEnabled

\* likewise a file that cannot be opened
C13_WitnessUnreadable ==
    /\ modals # <<>>
    /\ Top.kind = "error" /\ Top.origin = "upload"
    /\ Contains(Top.text, Lit(": no such file or directory"))
    /\ ImagePath # EmptyString
    /\ ClassifyEnabled

\* The dialog reports a failed analysis whose ErrorMessage AnalyzeImage built
\* from the error object of the provider's payload (line 186).
ReportsProviderError(d) ==
    /\ d.kind = "error" /\ d.origin = "analysis"
    /\ d.cause # EmptyString
    /\ Head(d.cause) = "OpenAI API error: "

\* the error.message of that payload
ProviderMessage(d) == Tail(d.cause)

\* C14 (as claimed): when the provider returned an error payload, the message
\* shown to the user is the payload's error.message, nothing added, nothing
\* removed.
C14_ProviderMessageShownVerbatim ==
    \A i \in 1..Len(modals) :
        ReportsProviderError(modals[i])
            => modals[i].text = ProviderMessage(modals[i])

\* C14, what the GTK build keeps: the message is shown whole, after the
\* prefixes of showError and of AnalyzeImage.
C14_GtkProviderMessageAfterPrefixes ==
    frontend = "gtk" =>
        \A i \in 1..Len(modals) :
            ReportsProviderError(modals[i])
                => modals[i].text = <<"Analysis failed: ", "OpenAI API error: ">>
                                      \o ProviderMessage(modals[i])

\* C14 read loosely, the message being at least a part of what is shown: not
\* so in the Fyne build, which takes the message for a format.
C14_ProviderMessageShownWhole ==
    \A i \in 1..Len(modals) :
        ReportsProviderError(modals[i])
            => Contains(modals[i].text, ProviderMessage(modals[i]))

\* what the widgets show: the image, the two buttons, the label, the result
\* text and the dialogs open
Widgets == <<ImageView, UploadEnabled, ClassifyEnabled, StatusLabel,
             ResultView, modals>>

\* C15 (as claimed): no step of a worker goroutine changes a widget; the
\* updates made for a completion are steps of the UI thread.
C15_WorkersNeverTouchWidgets == [][WorkerStep => UNCHANGED Widgets]_vars

\* C15 holds of the GTK build: the goroutine hands the completion to
\* glib.IdleAdd, and the widgets change in the idle callback.
C15_GtkWorkersNeverTouchWidgets ==
    [][(frontend = "gtk" /\ WorkerStep) => UNCHANGED Widgets]_vars

\* the requests of the classifications whose result has not been delivered to
\* the widgets yet: those of the goroutines before their first update, and
\* those waiting in the idle queue
Undelivered ==
    {w.req : w \in {x \in Alive : x.pc \in {"analyze", "returned"}}}
        \cup {idle[i].req : i \in 1..Len(idle)}

\* C16 (as claimed): a result is delivered for the image that is loaded then:
\* from the click to the delivery the image captured by the request is the
\* image the application holds.
C16_ResultBelongsToLoadedImage ==
    \A req \in Undelivered : req.Base64Image = Base64Image

\* C16 (as claimed), the reason given: for that whole interval the upload
\* button is disabled and no file dialog is open.
C16_UploadDisabledUntilDelivery ==
    Undelivered # {} =>
        /\ ~UploadEnabled
        /\ \A i \in 1..Len(modals) : modals[i].kind # "file"

\* C16 holds of the GTK build.
C16_GtkResultBelongsToLoadedImage ==
    frontend = "gtk" =>
        /\ C16_ResultBelongsToLoadedImage
        /\ C16_UploadDisabledUntilDelivery

\* the encoding of the file recorded in ImagePath, none being recorded at start
EncodingOfImagePath ==
    IF ImagePath = EmptyString THEN EmptyString
    ELSE EncodeData(FileOnDisk(ImagePath).data)

\* C17 (as claimed): in every state Base64Image is the encoding of the file
\* recorded in ImagePath, and that file is the one the image view shows; a
\* failed load, a failed decoding for display included, leaves Base64Image at
\* the image loaded before.
C17_HeldImageIsShownImage ==
    /\ Base64Image = EncodingOfImagePath
    /\ ImageView = ImagePath

\* C17 (as claimed), the consequence: a request sends the image shown when it
\* was made.  (Stated of the states where no load happened since the click.)
C17_RequestSendsShownImage ==
    \A w \in Alive :
        (w.pc = "analyze" /\ ~UploadEnabled /\ ImageView # EmptyString)
            => w.req.Base64Image = EncodeData(FileOnDisk(ImageView).data)

\* C17 holds of the Fyne build, whose loadImage cannot fail after it has
\* assigned Base64Image.
C17_FyneHeldImageIsShownImage == frontend = "fyne" => C17_HeldImageIsShownImage

\* C18: whenever the classify button is enabled an image is held; an image
\* held is never given up, so the "No image loaded" dialog of
\* onClassifyClicked never opens.
C18_ClassifyEnabledHasImage ==
    /\ [](ClassifyEnabled => Base64Image # EmptyString)
    /\ [](\A i \in 1..Len(modals) :
             modals[i].kind = "error" => modals[i].origin # "classify")
    /\ [][Base64Image # EmptyString => Base64Image' # EmptyString]_vars

\* the button enabled again by a completed classification, the image held
C18_Witness ==
    /\ ClassifyEnabled
    /\ Base64Image # EmptyString
    /\ StatusLabel = Lit("Analysis complete")
    /\ Pending = 0

\* the button enabled by a load
C18_WitnessLoaded ==
    /\ ClassifyEnabled
    /\ Base64Image # EmptyString
    /\ HasPrefix(StatusLabel, Lit("Loaded: "))

\* C12 seen from the GUI: the AnalyzeImage call of a classification has made
\* one call of PostJSON at most when it returns, and each click starts one
\* goroutine.
C12_GuiAtMostOnePost ==
    /\ [](\A w \in Alive : w.pc = "returned" => w.posts <= 1)
    /\ [][OnClassifyClicked =>
             BagCardinality(workers') <= BagCardinality(workers) + 1]_vars

=============================================================================
